---- MODULE Spec2Model ----
(***************************************************************************)
(* Model of the privacy-budget store scenario (docs/examples/code/         *)
(* dp_sim.py) and of the request/release resources (simpy/resources/       *)
(* resource.py).                                                           *)
(*                                                                         *)
(* Budgets are floats in the source.  They are modelled in tenths: 5.0 is  *)
(* 50, 0.6 is 6, the exhausted sentinel -1 is -10.  The charge is checked  *)
(* as a function of exact tenths; float rounding is not modelled.          *)
(*                                                                         *)
(* Positions of the collection are 1-based here and 0-based in the source. *)
(***************************************************************************)
EXTENDS Integers, Sequences, FiniteSets, TLC

VARIABLES
    now,            \* Environment.now, the virtual clock
    schedule,       \* triggered events not yet processed, in scheduling order
    error,          \* the exception that escaped the last call, or "none"
    items,          \* DPStore.items: the blocks, in arrival order
    data_block_id,  \* the itertools.count() that numbers the blocks
    get_queue,      \* DPStore.get_queue: the pending withdrawals, in arrival order
    charges,        \* the withdrawals the last handler resolved, in order, each
                    \* with the budgets it found and left
    kind,           \* the class of the resource
    capacity,       \* Resource._capacity
    users,          \* Resource.users: the requests holding a slot
    put_queue,      \* Resource.queue: the requests waiting
    reqs,           \* the request objects, by id
    issued,         \* the requests issued so far; they are numbered in this order
    maxlen          \* SortedQueue.maxlen of the queue: {} for None, {n} for n

storevars == <<items, data_block_id, charges>>
resvars == <<kind, capacity, maxlen, users, put_queue, reqs, issued>>
vars == <<now, schedule, error, get_queue, storevars, resvars>>

----------------------------------------------------------------------------
(* Bounds of the model *)

\* blocks the producer deposits
MaxBlocks == 2
\* withdrawals alive at a time: pending, or granted with the consumer not yet
\* resumed
MaxGets == 2
\* requests issued in a run
MaxReqs == 3
\* last instant of the virtual clock
MaxTime == 1
\* Release events waiting to be processed
MaxReleases == 1

(* Program constants, in tenths *)

INIT_EPSILON == 50
SENTINEL == -10
BLOCK_ARRIVAL_PERIOD == 10
SIM_TIME == 100

\* The costs a withdrawal may carry: 2.6 leaves 2.4 of a fresh block and 4.6
\* leaves 0.4 of it.
Costs == {26, 46}
\* The block counts a withdrawal may ask for; MaxBlocks + 1 is never reached.
BlockNrs == 1 .. (MaxBlocks + 1)

----------------------------------------------------------------------------
(* Helpers *)

RemoveAt(s, i) == SubSeq(s, 1, i - 1) \o SubSeq(s, i + 1, Len(s))

Range(s) == {s[i] : i \in DOMAIN s}

IsInjective(s) == \A i, j \in DOMAIN s : s[i] = s[j] => i = j

IsPrefix(s, t) == Len(s) <= Len(t) /\ SubSeq(t, 1, Len(s)) = s

----------------------------------------------------------------------------
(* DPStore._do_get *)

\* lines 62-65 with <= for <
ChargeLe(e, c) == IF e - c <= 0 THEN SENTINEL ELSE e - c

\* lines 62-65 with the test of line 62 made on the budget before the charge
ChargeTestBefore(e, c) == IF e < 0 THEN SENTINEL ELSE e - c

\* lines 62-65: the sentinel-aware charge of cost c to a budget e
Charge(e, c) == IF e - c < 0 THEN SENTINEL ELSE e - c

\* random.choices in place of random.sample: positions may repeat
SampleWithReplacement(m, k) == [1 .. k -> 1 .. m]

\* line 60: random.sample(range(m), k), every ordered choice of k distinct
\* positions; the caller guarantees k <= m
Sample(m, k) == {s \in [1 .. k -> 1 .. m] : IsInjective(s)}

\* lines 60-66: the loop over the sampled positions s, from its i-th element.
\* Gives the collection after the charges, and the budget each charge found
\* and left.
RECURSIVE ChargeBlocks(_, _, _, _, _, _)
ChargeBlocks(its, s, c, i, before, after) ==
    IF i > Len(s)
    THEN [items |-> its, before |-> before, after |-> after]
    ELSE LET p == s[i]
             e == its[p].epsilon
             e2 == Charge(e, c)
         IN  ChargeBlocks([its EXCEPT ![p].epsilon = e2], s, c, i + 1,
                          Append(before, e), Append(after, e2))

\* lines 58-69 with the loop of line 60 over every position of the
\* collection: the sampled blocks are returned, all blocks are charged
GrantedChargingAll(its, ev, s) ==
    LET r == ChargeBlocks(its, s, ev.epsilon, 1, <<>>, <<>>)
        all == ChargeBlocks(its, [i \in 1 .. Len(its) |-> i], ev.epsilon, 1,
                            <<>>, <<>>)
    IN  [items |-> all.items, triggered |-> TRUE, value |-> s,
         log |-> <<[epsilon |-> ev.epsilon, block_nr |-> ev.block_nr,
                    value |-> s, before |-> r.before, after |-> r.after]>>,
         proceed |-> TRUE, error |-> "none"]

\* lines 58-69 with the sample s drawn: the blocks are charged and the event
\* succeeds with them
Granted(its, ev, s) ==
    LET r == ChargeBlocks(its, s, ev.epsilon, 1, <<>>, <<>>)
    IN  [items |-> r.items, triggered |-> TRUE, value |-> s,
         log |-> <<[epsilon |-> ev.epsilon, block_nr |-> ev.block_nr,
                    value |-> s, before |-> r.before, after |-> r.after]>>,
         proceed |-> TRUE, error |-> "none"]

\* lines 58, 69 with the guard false: nothing happens, the pass goes on
NotGranted(its) ==
    [items |-> its, triggered |-> FALSE, value |-> <<>>, log |-> <<>>,
     proceed |-> TRUE, error |-> "none"]

\* lines 58-69 without the guard of line 58: random.sample raises ValueError
\* when asked for more positions than there are
DoGetUnguarded(its, ev) ==
    IF Len(its) >= ev.block_nr
    THEN {Granted(its, ev, s) : s \in Sample(Len(its), ev.block_nr)}
    ELSE {[NotGranted(its) EXCEPT !.error = "ValueError"]}

\* lines 58-69 followed by the removal the commented-out lines 71-75 made
DoGetRemoving(its, ev) ==
    IF Len(its) >= ev.block_nr
    THEN { LET r == Granted(its, ev, s)
           IN  [r EXCEPT !.items = SelectSeq(r.items, LAMBDA b :
                    \A i \in DOMAIN s : its[s[i]].block_id # b.block_id)]
           : s \in Sample(Len(its), ev.block_nr) }
    ELSE {NotGranted(its)}

\* lines 55-69 with line 69 reporting 'stop' when the guard fails
DoGetStopping(its, ev) ==
    IF Len(its) >= ev.block_nr
    THEN {Granted(its, ev, s) : s \in Sample(Len(its), ev.block_nr)}
    ELSE {[NotGranted(its) EXCEPT !.proceed = FALSE]}

\* lines 55-69: the outcomes of evaluating the withdrawal ev against the
\* collection its, one per sample.  value holds the positions of the returned
\* blocks: the list returned holds the collection's own records, not copies.
DPStore_do_get(its, ev) ==
    IF Len(its) >= ev.block_nr
    THEN {Granted(its, ev, s) : s \in Sample(Len(its), ev.block_nr)}
    ELSE {NotGranted(its)}

----------------------------------------------------------------------------
(* The engine *)

\* The event of a deposit that succeeded
PutEvent == [kind |-> "put", value |-> <<>>]

\* The event of a withdrawal that succeeded with the blocks at positions v;
\* its cost and count are not read again
GetEvent(v) == [kind |-> "get", value |-> v]

\* BaseResource._trigger_get: evaluate the pending withdrawals from position
\* idx on, in queue order; one that triggered leaves the queue and is
\* scheduled; the pass ends when _do_get does not ask to proceed or raises.
RECURSIVE TriggerGet(_, _)
TriggerGet(idx, st) ==
    IF idx > Len(st.get_queue)
    THEN {st}
    ELSE LET ev == st.get_queue[idx]
         IN  UNION {
               LET st2 ==
                     [items |-> o.items,
                      get_queue |-> IF o.triggered
                                    THEN RemoveAt(st.get_queue, idx)
                                    ELSE st.get_queue,
                      schedule |-> IF o.triggered
                                   THEN Append(st.schedule, GetEvent(o.value))
                                   ELSE st.schedule,
                      charges |-> st.charges \o o.log,
                      error |-> o.error]
               IN  IF o.error # "none" \/ ~o.proceed
                   THEN {st2}
                   ELSE TriggerGet(IF o.triggered THEN idx ELSE idx + 1, st2)
               : o \in DPStore_do_get(st.items, ev) }

\* The store's state as a pass takes it, with no charge made yet
PassState(q, sch) ==
    [items |-> items, get_queue |-> q, schedule |-> sch, charges |-> <<>>,
     error |-> "none"]

SetPassState(o) ==
    /\ items' = o.items
    /\ get_queue' = o.get_queue
    /\ schedule' = o.schedule
    /\ charges' = o.charges
    /\ error' = o.error

\* The withdrawals alive: pending, or granted and not yet seen by the consumer
LiveGets ==
    Len(get_queue) + Cardinality({i \in DOMAIN schedule : schedule[i].kind = "get"})

----------------------------------------------------------------------------
(* Initial state: Environment() and DPStore(env) *)

InitEnv ==
    /\ now = 0
    /\ schedule = <<>>
    /\ error = "none"

InitStore ==
    /\ items = <<>>
    /\ data_block_id = 0
    /\ get_queue = <<>>
    /\ charges = <<>>

----------------------------------------------------------------------------
(* Operations *)

\* block_generator, lines 98-102: the block built at time t with the id drawn
BlockAt(id, t) ==
    [timestamp |-> t, block_id |-> id, epsilon |-> INIT_EPSILON,
     comment |-> <<"Generator A", t>>]

\* block_generator, lines 87-102: the block built by the iteration that
\* draws id from the counter.  Each iteration first waits one period, so the
\* clock reads BLOCK_ARRIVAL_PERIOD * (id + 1); the comment is formatted from
\* the producer's name and that time.
NewBlock(id) == BlockAt(id, BLOCK_ARRIVAL_PERIOD * (id + 1))

\* Store._do_put: the store is unbounded, so the block joins the collection
\* and the deposit succeeds at once
Store_do_put(its, block) == Append(its, block)

\* block_generator, lines 98-105: build a block and deposit it.  The deposit's
\* event is scheduled; its callback will evaluate the pending withdrawals.
PutBlock ==
    /\ error = "none"
    /\ Len(items) < MaxBlocks
    /\ items' = Store_do_put(items, NewBlock(data_block_id))
    /\ data_block_id' = data_block_id + 1
    /\ schedule' = Append(schedule, PutEvent)
    /\ charges' = <<>>
    /\ UNCHANGED <<now, error, get_queue, resvars>>

\* consumer, lines 132-133: in_pipe.get(c, n).  The withdrawal joins the
\* queue and the pending withdrawals are evaluated, this one included.
GetBlocks(c, n) ==
    /\ error = "none"
    /\ LiveGets < MaxGets
    /\ \E o \in TriggerGet(1, PassState(
                    Append(get_queue, [epsilon |-> c, block_nr |-> n]),
                    schedule)) :
           SetPassState(o)
    /\ UNCHANGED <<now, data_block_id, resvars>>

\* The engine processes a deposit's event: its callback evaluates the
\* pending withdrawals.
StepPut ==
    /\ error = "none"
    /\ schedule # <<>>
    /\ Head(schedule).kind = "put"
    /\ \E o \in TriggerGet(1, PassState(get_queue, Tail(schedule))) :
           SetPassState(o)
    /\ UNCHANGED <<now, data_block_id, resvars>>

\* The engine processes a granted withdrawal's event: the consumer resumes
\* (line 135) with the blocks it was granted.
StepGet ==
    /\ error = "none"
    /\ schedule # <<>>
    /\ Head(schedule).kind = "get"
    /\ schedule' = Tail(schedule)
    /\ charges' = <<>>
    /\ UNCHANGED <<now, error, items, data_block_id, get_queue, resvars>>

----------------------------------------------------------------------------
(* Requests and the sorted queue *)

Kinds == {"Resource", "PriorityResource", "PreemptiveResource"}

\* The priorities a request may carry; a lower value is more important.
Priorities == {0, 1}

\* The capacities a resource may be constructed with
Capacities == {1, 2}

ReqIds == 1 .. MaxReqs

\* The attributes kept under an id that names no waiting or using request
NoRequest ==
    [triggered |-> FALSE, priority |-> 0, preempt |-> FALSE, time |-> 0,
     since |-> 0]

\* Each request alive is issued by a process of its own, so a request's id
\* also names its process (Put.proc).

\* A request that neither waits nor holds a slot any more can still be
\* released, but its attributes are never read again: they are not kept.
Retire(rq, us, q) ==
    [r \in ReqIds |->
        IF r \notin Range(us) /\ r \notin Range(q) THEN NoRequest ELSE rq[r]]

\* PriorityRequest.__init__, lines 79-84: the request as constructed at time t.
\* since is the time the request was granted a slot; the code keeps no such
\* attribute, the record keeps it so that the start of usage can be told from
\* the time of construction.
PriorityRequest(priority, preempt, t) ==
    [triggered |-> FALSE, priority |-> priority, preempt |-> preempt,
     time |-> t, since |-> 0]

\* Request (base.Put): a plain request carries no priority, flag or time
Request ==
    [triggered |-> FALSE, priority |-> 0, preempt |-> FALSE, time |-> 0,
     since |-> 0]

\* line 83 and the tuple order Python compares keys by: (priority, time)
KeyLess(a, b) ==
    \/ a.priority < b.priority
    \/ a.priority = b.priority /\ a.time < b.time

\* list.sort(key=...) and sorted(key=...): a stable ascending sort of the
\* request ids s by the keys of rq, by insertion
RECURSIVE InsertByKey(_, _, _)
InsertByKey(s, x, rq) ==
    IF s = <<>> \/ ~KeyLess(rq[x], rq[s[Len(s)]])
    THEN Append(s, x)
    ELSE Append(InsertByKey(SubSeq(s, 1, Len(s) - 1), x, rq), s[Len(s)])

RECURSIVE SortByKey(_, _)
SortByKey(s, rq) ==
    IF s = <<>>
    THEN <<>>
    ELSE InsertByKey(SortByKey(SubSeq(s, 1, Len(s) - 1), rq), s[Len(s)], rq)

\* SortedQueue.append with the sort of line 100 left out
AppendUnsorted(q, x, rq, mx) ==
    IF \E n \in mx : Len(q) >= n
    THEN [queue |-> q, error |-> "ValueError"]
    ELSE [queue |-> Append(q, x), error |-> "none"]

\* lines 94-100 with > for >= in line 96
AppendOverBound(q, x, rq, mx) ==
    IF \E n \in mx : Len(q) > n
    THEN [queue |-> q, error |-> "ValueError"]
    ELSE [queue |-> SortByKey(Append(q, x), rq), error |-> "none"]

\* SortedQueue.append, lines 94-100.  mx is {} for maxlen None and {n} for n.
SortedQueue_append(q, x, rq, mx) ==
    IF \E n \in mx : Len(q) >= n
    THEN [queue |-> q, error |-> "ValueError"]
    ELSE [queue |-> SortByKey(Append(q, x), rq), error |-> "none"]

\* list.remove: drop the first occurrence of x, if any
Remove(s, x) ==
    IF \E i \in DOMAIN s : s[i] = x
    THEN RemoveAt(s, CHOOSE i \in DOMAIN s :
                        s[i] = x /\ \A j \in DOMAIN s : s[j] = x => i <= j)
    ELSE s

----------------------------------------------------------------------------
(* Resource._do_put, Resource._do_get, PreemptiveResource._do_put *)

\* lines 140-143 without the test of line 141
DoPutUnchecked(us, cap, r) == [users |-> Append(us, r), triggered |-> TRUE]

\* lines 140-143 with <= for <
DoPutOverCapacity(us, cap, r) ==
    IF Len(us) <= cap
    THEN [users |-> Append(us, r), triggered |-> TRUE]
    ELSE [users |-> us, triggered |-> FALSE]

\* Resource._do_put, lines 140-143
Resource_do_put(us, cap, r) ==
    IF Len(us) < cap
    THEN [users |-> Append(us, r), triggered |-> TRUE]
    ELSE [users |-> us, triggered |-> FALSE]

\* lines 145-150 with event.succeed() inside the try block
DoGetOnlyUsers(us, r) ==
    IF \E i \in DOMAIN us : us[i] = r
    THEN [users |-> Remove(us, r), triggered |-> TRUE]
    ELSE [users |-> us, triggered |-> FALSE]

\* Resource._do_get, lines 145-150: a ValueError of list.remove is swallowed
Resource_do_get(us, r) == [users |-> Remove(us, r), triggered |-> TRUE]

InterruptEvent(victim, by, since) ==
    [kind |-> "interrupt", req |-> victim, by |-> by, usage_since |-> since]

ReleaseEvent(r) ==
    [kind |-> "release", req |-> r, by |-> 0, usage_since |-> 0]

\* lines 180-190 with >= for > in line 185
PreemptOnEqual(us, cap, rq, r) ==
    LET try == Len(us) >= cap /\ rq[r].preempt
        victim == SortByKey(us, rq)[Len(us)]
        does == try /\ ~KeyLess(rq[victim], rq[r])
        put == Resource_do_put(IF does THEN Remove(us, victim) ELSE us, cap, r)
    IN  [users |-> put.users, triggered |-> put.triggered,
         interrupts |-> IF does
                        THEN <<InterruptEvent(victim, r, rq[victim].time)>>
                        ELSE <<>>]

\* lines 180-190 with [0] for [-1] in line 183
PreemptFirst(us, cap, rq, r) ==
    LET try == Len(us) >= cap /\ rq[r].preempt
        victim == SortByKey(us, rq)[1]
        does == try /\ KeyLess(rq[r], rq[victim])
        put == Resource_do_put(IF does THEN Remove(us, victim) ELSE us, cap, r)
    IN  [users |-> put.users, triggered |-> put.triggered,
         interrupts |-> IF does
                        THEN <<InterruptEvent(victim, r, rq[victim].time)>>
                        ELSE <<>>]

\* PreemptiveResource._do_put, lines 180-190
Preemptive_do_put(us, cap, rq, r) ==
    LET try == Len(us) >= cap /\ rq[r].preempt
        victim == SortByKey(us, rq)[Len(us)]
        does == try /\ KeyLess(rq[r], rq[victim])
        put == Resource_do_put(IF does THEN Remove(us, victim) ELSE us, cap, r)
    IN  [users |-> put.users, triggered |-> put.triggered,
         interrupts |-> IF does
                        THEN <<InterruptEvent(victim, r, rq[victim].time)>>
                        ELSE <<>>]

\* The _do_put of the resource's class
DoPut(k, us, cap, rq, r) ==
    IF k = "PreemptiveResource"
    THEN Preemptive_do_put(us, cap, rq, r)
    ELSE [users |-> Resource_do_put(us, cap, r).users,
          triggered |-> Resource_do_put(us, cap, r).triggered,
          interrupts |-> <<>>]

----------------------------------------------------------------------------
(* The engine, for resources *)

IsUrgent(e) == e.kind = "interrupt"

\* Environment.schedule: events of the current time are processed by
\* priority, urgent ones (interrupts) first, and in scheduling order
ScheduleUrgent(sch, evs) ==
    SelectSeq(sch, IsUrgent) \o evs \o SelectSeq(sch, LAMBDA e : ~IsUrgent(e))

\* BaseResource._trigger_put: the head of the queue is passed to _do_put; if
\* it triggered it leaves the queue; _do_put returns None, which ends the pass
TriggerPut(k, us, cap, q, rq, sch) ==
    IF q = <<>>
    THEN [users |-> us, put_queue |-> q, reqs |-> rq, schedule |-> sch]
    ELSE LET r == Head(q)
             o == DoPut(k, us, cap, rq, r)
         IN  [users |-> o.users,
              put_queue |-> IF o.triggered THEN Tail(q) ELSE q,
              reqs |-> IF o.triggered
                       THEN [rq EXCEPT ![r].triggered = TRUE, ![r].since = now]
                       ELSE rq,
              schedule |-> ScheduleUrgent(sch, o.interrupts)]

\* BaseResource._trigger_get: the head of the pending releases is passed to
\* _do_get; if it triggered it leaves the queue and its event is scheduled
TriggerRelease(us, gq, sch) ==
    IF gq = <<>>
    THEN [users |-> us, get_queue |-> gq, schedule |-> sch]
    ELSE LET o == Resource_do_get(us, Head(gq))
         IN  [users |-> o.users,
              get_queue |-> IF o.triggered THEN Tail(gq) ELSE gq,
              schedule |-> IF o.triggered
                           THEN Append(sch, ReleaseEvent(Head(gq)))
                           ELSE sch]

SetPut(o) ==
    /\ users' = o.users
    /\ put_queue' = o.put_queue
    /\ reqs' = Retire(o.reqs, o.users, o.put_queue)
    /\ schedule' = o.schedule
    /\ issued' = issued

----------------------------------------------------------------------------
(* Initial state: Environment() and a resource of some class and capacity *)

InitResource ==
    /\ kind \in Kinds
    /\ capacity \in Capacities
    /\ users = <<>>
    /\ put_queue = <<>>
    /\ reqs = [r \in ReqIds |-> NoRequest]
    /\ issued = 0
    /\ maxlen = {}

NoResource ==
    /\ kind = "Resource"
    /\ capacity = 1
    /\ users = <<>>
    /\ put_queue = <<>>
    /\ reqs = [r \in ReqIds |-> NoRequest]
    /\ issued = 0
    /\ maxlen = {}

----------------------------------------------------------------------------
(* Operations on a resource *)

\* A process runs when the engine processes the event it waits for, and the
\* engine processes the urgent events first: a process starts an operation
\* only when no Interrupt is waiting to be delivered.
ProcessMayRun == \A i \in DOMAIN schedule : ~IsUrgent(schedule[i])

\* resource.request(...): the request is constructed, joins the queue
\* (Put.__init__) and the head of the queue is evaluated
DoRequest(r, new) ==
    LET rq == [reqs EXCEPT ![r] = new]
        q == IF kind = "Resource"
             THEN Append(put_queue, r)
             ELSE SortedQueue_append(put_queue, r, rq, maxlen).queue
        o == TriggerPut(kind, users, capacity, q, rq, schedule)
    IN  /\ users' = o.users
        /\ put_queue' = o.put_queue
        /\ reqs' = Retire(o.reqs, o.users, o.put_queue)
        /\ schedule' = o.schedule
        /\ issued' = r

RequestAct(priority, preempt) ==
    /\ error = "none"
    /\ ProcessMayRun
    /\ issued < MaxReqs
    /\ kind = "Resource" => priority = 0
    /\ kind # "PreemptiveResource" => preempt
    /\ DoRequest(issued + 1, IF kind = "Resource" THEN Request
                             ELSE PriorityRequest(priority, preempt, now))
    /\ UNCHANGED <<now, error, get_queue, kind, capacity, maxlen, storevars>>

PendingReleases ==
    Len(get_queue)
    + Cardinality({i \in DOMAIN schedule : schedule[i].kind = "release"})

\* resource.release(request), lines 63-65: the Release joins the pending
\* releases and is evaluated at once.  The request may wait, hold a slot, or
\* do neither (it was released, preempted or cancelled before).
ReleaseAct(r) ==
    /\ error = "none"
    /\ ProcessMayRun
    /\ r <= issued
    /\ PendingReleases < MaxReleases
    /\ LET o == TriggerRelease(users, Append(get_queue, r), schedule)
       IN  /\ users' = o.users
           /\ get_queue' = o.get_queue
           /\ schedule' = o.schedule
           /\ reqs' = Retire(reqs, o.users, put_queue)
    /\ UNCHANGED <<now, error, kind, capacity, maxlen, put_queue, issued, storevars>>

\* lines 47-49 without line 49: the request is cancelled and not released
ExitWithoutRelease(r) ==
    /\ error = "none"
    /\ ProcessMayRun
    /\ r <= issued
    /\ PendingReleases < MaxReleases
    /\ LET q == IF reqs[r].triggered THEN put_queue ELSE Remove(put_queue, r)
       IN  /\ put_queue' = q
           /\ reqs' = Retire(reqs, users, q)
    /\ UNCHANGED <<now, error, schedule, get_queue, kind, capacity, maxlen,
                   users, issued, storevars>>

\* Request.__exit__, lines 47-49: leaving the with block cancels the request
\* if it still waits (Put.__exit__) and releases it
ExitAct(r) ==
    /\ error = "none"
    /\ ProcessMayRun
    /\ r <= issued
    /\ PendingReleases < MaxReleases
    /\ LET q == IF reqs[r].triggered THEN put_queue ELSE Remove(put_queue, r)
           o == TriggerRelease(users, Append(get_queue, r), schedule)
       IN  /\ put_queue' = q
           /\ issued' = issued
           /\ users' = o.users
           /\ get_queue' = o.get_queue
           /\ schedule' = o.schedule
           /\ reqs' = Retire(reqs, o.users, q)
    /\ UNCHANGED <<now, error, kind, capacity, maxlen, storevars>>

\* The engine processes a Release's event: its callback evaluates the head
\* of the waiting requests
StepRelease ==
    /\ error = "none"
    /\ schedule # <<>>
    /\ Head(schedule).kind = "release"
    /\ SetPut(TriggerPut(kind, users, capacity, put_queue, reqs, Tail(schedule)))
    /\ UNCHANGED <<now, error, get_queue, kind, capacity, maxlen, storevars>>

\* The engine delivers an Interrupt to the process of a preempted request
StepInterrupt ==
    /\ error = "none"
    /\ schedule # <<>>
    /\ Head(schedule).kind = "interrupt"
    /\ schedule' = Tail(schedule)
    /\ UNCHANGED <<now, error, get_queue, kind, capacity, maxlen, users, put_queue,
                   reqs, issued, storevars>>

\* The clock moves on once every event of the current time is processed
Tick ==
    /\ error = "none"
    /\ schedule = <<>>
    /\ now < MaxTime
    /\ now' = now + 1
    /\ UNCHANGED <<schedule, error, get_queue, kind, capacity, maxlen, users,
                   put_queue, reqs, issued, storevars>>

----------------------------------------------------------------------------
(* Specifications *)

\* The privacy-budget store under any producer and consumers
Init == InitEnv /\ InitStore /\ NoResource

Next ==
    \/ PutBlock
    \/ \E c \in Costs, n \in BlockNrs : GetBlocks(c, n)
    \/ StepPut
    \/ StepGet

Spec == Init /\ [][Next]_vars

\* A resource of any class under any clients
InitRes == InitEnv /\ InitStore /\ InitResource

NextRes ==
    \/ \E p \in Priorities, f \in BOOLEAN : RequestAct(p, f)
    \/ \E r \in ReqIds : ReleaseAct(r)
    \/ \E r \in ReqIds : ExitAct(r)
    \/ StepRelease
    \/ StepInterrupt
    \/ Tick

SpecRes == InitRes /\ [][NextRes]_vars

\* The store under withdrawals of any sign of cost: DPStoreGet takes the cost
\* as given (lines 30-39).  -2.0 is a refund, 8.0 exceeds a fresh budget.
\* Granted withdrawals are not consumed here, so MaxGets bounds their number.
SignedCosts == {-20, 6, 80}

NextOrder ==
    \/ PutBlock
    \/ \E c \in SignedCosts, n \in BlockNrs : GetBlocks(c, n)
    \/ StepPut

SpecOrder == Init /\ [][NextOrder]_vars

\* The scenario on its clock: the producer, the spawner of consumers and the
\* horizon.  The consumers' withdrawals are left out here: they neither add
\* nor remove a block.  Events carry the time they are due and a priority;
\* the horizon's event is due at SIM_TIME, and whether the engine processes
\* it before or after the other events due at SIM_TIME is the engine's.
SpawnDelays == 4 .. 8

Timed(k, at, prio, id) == [kind |-> k, at |-> at, prio |-> prio, id |-> id]

\* Environment.schedule: the event joins the queue behind every event due
\* earlier, or due at the same time with a priority not larger
RECURSIVE ScheduleAt(_, _)
ScheduleAt(sch, ev) ==
    IF sch = <<>> THEN <<ev>>
    ELSE IF \/ Head(sch).at < ev.at
            \/ Head(sch).at = ev.at /\ Head(sch).prio <= ev.prio
         THEN <<Head(sch)>> \o ScheduleAt(Tail(sch), ev)
         ELSE <<ev>> \o sch

\* line 89 one tick late
NextArrivalLate(t) == t + BLOCK_ARRIVAL_PERIOD + 1

\* block_generator, line 89: the time the timeout requested at t is due
NextArrival(t) == t + BLOCK_ARRIVAL_PERIOD

\* lines 153-163: both processes have started and wait for their first
\* timeout; env.run(until=SIM_TIME) has scheduled the horizon
InitRun ==
    /\ now = 0
    /\ error = "none"
    /\ InitStore
    /\ NoResource
    /\ \E d \in SpawnDelays, p \in {0, 2} :
          schedule = ScheduleAt(ScheduleAt(ScheduleAt(<<>>,
                         Timed("until", SIM_TIME, p, 0)),
                         Timed("timeout", NextArrival(0), 1, 0)),
                         Timed("spawn", d, 1, 0))

\* block_generator, lines 87-106: its timeout is processed; it builds a
\* block, deposits it and requests the next timeout
GeneratorStep ==
    /\ schedule # <<>>
    /\ Head(schedule).kind = "timeout"
    /\ now' = Head(schedule).at
    /\ items' = Store_do_put(items, BlockAt(data_block_id, now'))
    /\ data_block_id' = data_block_id + 1
    /\ schedule' = ScheduleAt(ScheduleAt(Tail(schedule),
                                Timed("put", now', 1, 0)),
                                Timed("timeout", NextArrival(now'), 1, 0))
    /\ UNCHANGED <<error, get_queue, charges, resvars>>

\* The deposit's event is processed: no withdrawal is pending here
PutProcessed ==
    /\ schedule # <<>>
    /\ Head(schedule).kind = "put"
    /\ now' = Head(schedule).at
    /\ schedule' = Tail(schedule)
    /\ UNCHANGED <<error, get_queue, storevars, resvars>>

\* consumer_generator, lines 113-119: its timeout is processed; it names the
\* next task, starts it and requests the next timeout
SpawnerStep ==
    /\ schedule # <<>>
    /\ Head(schedule).kind = "spawn"
    /\ now' = Head(schedule).at
    /\ \E d \in SpawnDelays :
          schedule' = ScheduleAt(Tail(schedule),
                          Timed("spawn", now' + d, 1, Head(schedule).id + 1))
    /\ UNCHANGED <<error, get_queue, storevars, resvars>>

\* line 163: the horizon's event is processed and the run stops; the events
\* still scheduled are abandoned
HorizonReached ==
    /\ schedule # <<>>
    /\ Head(schedule).kind = "until"
    /\ now' = Head(schedule).at
    /\ schedule' = <<>>
    /\ UNCHANGED <<error, get_queue, storevars, resvars>>

NextRun ==
    \/ GeneratorStep
    \/ PutProcessed
    \/ SpawnerStep
    \/ HorizonReached

SpecRun == InitRun /\ [][NextRun]_vars

\* A SortedQueue of any maxlen under appends of requests of any key
QueueBounds == {{}} \cup {{n} : n \in 0 .. (MaxReqs - 1)}

InitQueue ==
    /\ InitEnv
    /\ InitStore
    /\ kind = "PriorityResource"
    /\ capacity = 1
    /\ users = <<>>
    /\ put_queue = <<>>
    /\ reqs = [r \in ReqIds |-> NoRequest]
    /\ issued = 0
    /\ maxlen \in QueueBounds

\* queue.append(item), lines 94-100, of a new request of the given priority
QueueAppend(priority) ==
    /\ error = "none"
    /\ issued < MaxReqs
    /\ LET r == issued + 1
           rq == [reqs EXCEPT ![r] = PriorityRequest(priority, TRUE, now)]
           o == SortedQueue_append(put_queue, r, rq, maxlen)
       IN  /\ put_queue' = o.queue
           /\ error' = o.error
           /\ reqs' = IF o.error = "none" THEN rq ELSE reqs
           /\ issued' = r
    /\ UNCHANGED <<now, schedule, get_queue, kind, capacity, maxlen, users,
                   storevars>>

NextQueue ==
    \/ \E p \in Priorities : QueueAppend(p)
    \/ Tick

SpecQueue == InitQueue /\ [][NextQueue]_vars

\* One block of any budget under withdrawals of one block at any cost: the
\* charge of lines 62-65 over its whole domain
Budgets == {SENTINEL} \cup (0 .. INIT_EPSILON)

ChargeCosts == 0 .. (INIT_EPSILON + 10)

InitCharge ==
    /\ InitEnv
    /\ NoResource
    /\ \E e \in Budgets : items = <<[NewBlock(0) EXCEPT !.epsilon = e]>>
    /\ data_block_id = 1
    /\ get_queue = <<>>
    /\ charges = <<>>

NextCharge ==
    \/ \E c \in ChargeCosts : GetBlocks(c, 1)
    \/ StepGet

SpecCharge == InitCharge /\ [][NextCharge]_vars

----------------------------------------------------------------------------
(* Properties of the privacy-budget store *)

\* The withdrawal events triggered and not yet processed
GetEvents == SelectSeq(schedule, LAMBDA e : e.kind = "get")

\* C1: the budget of a block never increases over its lifetime, and a block
\* whose budget is the sentinel keeps the sentinel.
BudgetMonotone ==
    [][\A i \in DOMAIN items : \A j \in DOMAIN items' :
          items'[j].block_id = items[i].block_id =>
              /\ items'[j].epsilon <= items[i].epsilon
              /\ items[i].epsilon = SENTINEL => items'[j].epsilon = SENTINEL
      ]_vars

\* A withdrawal was charged to a block that already held the sentinel
ChargedExhausted ==
    \E k \in DOMAIN charges : \E i \in DOMAIN charges[k].before :
        /\ charges[k].before[i] = SENTINEL
        /\ charges[k].epsilon > 0

\* C2: a charge of cost c to a block of budget e leaves e - c if e - c >= 0
\* and the sentinel otherwise (5.0 charged 0.6 leaves 4.4; 0.4 charged 0.6
\* leaves the sentinel); the block holds what the last charge left.
SentinelThreshold ==
    /\ \A k \in DOMAIN charges : \A i \in DOMAIN charges[k].value :
          LET e == charges[k].before[i]
              c == charges[k].epsilon
          IN  charges[k].after[i] = IF e - c >= 0 THEN e - c ELSE SENTINEL
    /\ charges # <<>> =>
          LET last == charges[Len(charges)]
          IN  \A i \in DOMAIN last.value :
                  items[last.value[i]].epsilon = last.after[i]

\* 0.6 was charged to a block of budget 0.4
ChargedBelowZero ==
    \E k \in DOMAIN charges :
        /\ charges[k].epsilon = 6
        /\ charges[k].before = <<4>>
        /\ charges[k].after = <<SENTINEL>>

\* C3: a withdrawal of n blocks stays pending, in its place, while the store
\* holds fewer than n blocks; it resolves only against n blocks or more, and
\* no call raises.
GuardCorrect ==
    /\ [](/\ error = "none"
          /\ \A k \in DOMAIN charges : charges[k].block_nr <= Len(items)
          /\ \A k \in DOMAIN GetEvents : Len(GetEvents[k].value) <= Len(items))
    /\ [][LET Short(ev) == ev.block_nr > Len(items')
          IN  IsPrefix(SelectSeq(get_queue, Short), SelectSeq(get_queue', Short))
        ]_vars

\* Every event is processed and a withdrawal of more blocks than the store
\* will hold is still pending
PendingShort ==
    /\ schedule = <<>>
    /\ Len(items) = MaxBlocks
    /\ \E k \in DOMAIN get_queue : get_queue[k].block_nr > Len(items)

\* C4: no withdrawal removes a block: the store holds every block deposited,
\* in deposit order.
NoRemoval ==
    /\ Len(items) = data_block_id
    /\ \A i \in DOMAIN items : items[i].block_id = i - 1

\* A withdrawal of every block of the store was resolved
WithdrewAll ==
    /\ Len(items) >= 2
    /\ \E k \in DOMAIN charges : charges[k].block_nr = Len(items)

\* C5: a resolved withdrawal of n blocks samples n distinct positions of the
\* store, charges each once, and succeeds with these n blocks.
SamplingCardinality ==
    /\ \A k \in DOMAIN charges :
          LET ch == charges[k]
          IN  /\ Len(ch.value) = ch.block_nr
              /\ IsInjective(ch.value)
              /\ Range(ch.value) \subseteq DOMAIN items
              /\ Len(ch.before) = ch.block_nr
              /\ Len(ch.after) = ch.block_nr
              /\ Len(GetEvents) >= Len(charges) - k + 1
              /\ GetEvents[Len(GetEvents) - Len(charges) + k].value = ch.value
    /\ \A k \in DOMAIN GetEvents :
          /\ GetEvents[k].value # <<>>
          /\ IsInjective(GetEvents[k].value)
          /\ Range(GetEvents[k].value) \subseteq DOMAIN items

\* A withdrawal of two blocks was resolved with the later block drawn first
SampledSeveral ==
    \E k \in DOMAIN charges :
        charges[k].block_nr = 2 /\ charges[k].value = <<2, 1>>

----------------------------------------------------------------------------
(* Properties of the resources *)

\* The events of the releases not yet processed, and the interrupts not yet
\* delivered
Releases(sch) == SelectSeq(sch, LAMBDA e : e.kind = "release")

Interrupts(sch) == SelectSeq(sch, LAMBDA e : e.kind = "interrupt")

\* The step issues request r
Issuing(r) == issued = r - 1 /\ issued' = r

\* The step makes request r a user
Granting(r) == r \notin Range(users) /\ r \in Range(users')

\* The step processes the event of a release
ReleaseProcessed == Len(Releases(schedule')) < Len(Releases(schedule))

\* C6: a resource of any class never has more users than its capacity, and a
\* request is a user only after its event succeeded.
CapacityBound ==
    /\ Len(users) <= capacity
    /\ IsInjective(users)
    /\ \A i \in DOMAIN users : reqs[users[i]].triggered

\* A preemption at full capacity, with another request waiting
PreemptedAtCapacity ==
    /\ kind = "PreemptiveResource"
    /\ Len(users) = capacity
    /\ put_queue # <<>>
    /\ Interrupts(schedule) # <<>>

GrantOnIssue ==
    \A r \in ReqIds :
        /\ Issuing(r) /\ Len(users) < capacity /\ put_queue = <<>>
              => Granting(r)
        /\ Issuing(r) /\ Len(users) >= capacity
              => ~Granting(r) /\ r \in Range(put_queue')
        /\ Granting(r)
              => /\ Len(users) < capacity
                 /\ \A w \in Range(put_queue) : w >= r
                 /\ r \notin Range(put_queue')

PriorityOrder ==
    /\ [](kind # "Resource" =>
            \A i, j \in DOMAIN put_queue : i < j =>
                /\ ~KeyLess(reqs[put_queue[j]], reqs[put_queue[i]])
                /\ ~KeyLess(reqs[put_queue[i]], reqs[put_queue[j]])
                      => put_queue[i] < put_queue[j])
    /\ [][kind # "Resource" =>
            \A r \in ReqIds : Granting(r) =>
                \A w \in Range(put_queue') :
                    reqs'[w].priority >= reqs'[r].priority
        ]_vars

\* A request waits ahead of one that joined the queue earlier
Overtaken ==
    /\ kind = "PriorityResource"
    /\ Len(put_queue) >= 2
    /\ put_queue[1] > put_queue[2]

\* The request a step evaluates: the one it grants, or the head of the queue
Evaluated ==
    IF \E g \in ReqIds : Granting(g)
    THEN CHOOSE g \in ReqIds : Granting(g)
    ELSE Head(put_queue')

\* C10: when a PreemptiveResource at full capacity evaluates a request with
\* preempt set whose key is strictly smaller than the largest key among the
\* users, exactly one user, one of largest key, leaves the users, an Interrupt
\* with cause Preempted(by the requester, usage_since the victim's time) is
\* scheduled for it, and the requester becomes a user in the same step.
Preemption ==
    [][/\ kind = "PreemptiveResource"
       /\ (\E r \in ReqIds : Issuing(r)) \/ (ReleaseProcessed /\ put_queue # <<>>)
       /\ Len(users) >= capacity
       /\ reqs'[Evaluated].preempt
       /\ \E u \in Range(users) : KeyLess(reqs'[Evaluated], reqs[u])
       => \E v \in Range(users) :
             /\ \A u \in Range(users) : ~KeyLess(reqs[v], reqs[u])
             /\ Range(users') = (Range(users) \ {v}) \cup {Evaluated}
             /\ Len(users') = Len(users)
             /\ Interrupts(schedule) = <<>>
             /\ Interrupts(schedule') =
                    <<[kind |-> "interrupt", req |-> v, by |-> Evaluated,
                       usage_since |-> reqs[v].time]>>
      ]_vars

\* Of two users, the one that was granted first was preempted
PreemptedFirstUser ==
    /\ kind = "PreemptiveResource"
    /\ Len(users) = 2
    /\ \E i \in DOMAIN schedule :
          schedule[i].kind = "interrupt" /\ schedule[i].req < users[1]

----------------------------------------------------------------------------
(* Further properties *)

\* C11: an append to a SortedQueue that already holds maxlen items or more
\* raises ValueError and leaves the queue as it is; every other append, and
\* every append with maxlen None, succeeds and the queue holds one item more.
BoundedQueue ==
    [][issued' = issued + 1 =>
          IF \E n \in maxlen : Len(put_queue) >= n
          THEN error' = "ValueError" /\ put_queue' = put_queue
          ELSE /\ error' = "none"
               /\ Len(put_queue') = Len(put_queue) + 1
               /\ issued' \in Range(put_queue')
      ]_vars

\* An append to a non-empty queue at its bound was refused
AppendRefused ==
    /\ error = "ValueError"
    /\ put_queue # <<>>
    /\ maxlen = {Len(put_queue)}

TenBlocksAtHorizon ==
    schedule = <<>> =>
        /\ Len(items) = 10
        /\ \A i \in DOMAIN items : items[i].timestamp = 10 * i

\* C13: when the run stops the clock reads the horizon and the blocks were
\* deposited at times 10, 20, ..., in this order, up to 90 or 100: the block
\* due at the horizon itself is deposited only if the engine processes the
\* events due at the horizon before it stops.
BlocksAtHorizon ==
    /\ [](/\ \A i \in DOMAIN items :
                /\ items[i].timestamp = BLOCK_ARRIVAL_PERIOD * i
                /\ items[i].block_id = i - 1
          /\ schedule = <<>> =>
                /\ now = SIM_TIME
                /\ Len(items) \in {9, 10})
    /\ [][schedule # <<>> /\ schedule' = <<>> =>
            Len(items') = IF Head(schedule).prio = 0 THEN 9 ELSE 10]_vars

\* The run stopped at the horizon with the block due at 100 not deposited
StoppedBeforeTenth ==
    /\ schedule = <<>>
    /\ now = SIM_TIME
    /\ Len(items) = 9
    /\ items[9].timestamp = 90

\* The positions of the charge log entry ch that hold block p
Hits(ch, p) == {i \in DOMAIN ch.value : ch.value[i] = p}

\* The sentinel-aware charge of cost c to budget e, as C14 words it
Sequential(e, c) == IF e - c < 0 THEN SENTINEL ELSE e - c

PutsPending == Cardinality({i \in DOMAIN schedule : schedule[i].kind = "put"})

\* C15: every pass over the pending withdrawals, the one a new withdrawal
\* starts and the one a processed deposit starts, resolves every withdrawal
\* the store can satisfy, whatever waits ahead of it: a withdrawal issued
\* against enough blocks resolves in the step that issues it, and once every
\* deposit's event is processed no pending withdrawal asks for at most as
\* many blocks as the store holds.
PromptResolution ==
    /\ [](PutsPending = 0 =>
            \A k \in DOMAIN get_queue : get_queue[k].block_nr > Len(items))
    /\ [][LiveGets' > LiveGets \/ PutsPending' < PutsPending =>
            /\ \A k \in DOMAIN get_queue' :
                   get_queue'[k].block_nr > Len(items')
            /\ now' = now
        ]_vars

\* Every deposit's event is processed, a withdrawal of more blocks than the
\* store holds waits at the head of the queue, and the last pass resolved a
\* smaller withdrawal against blocks charged before
ResolvedBehindLarger ==
    /\ PutsPending = 0
    /\ get_queue # <<>>
    /\ get_queue[1].block_nr > Len(items)
    /\ \E k \in DOMAIN charges :
          /\ charges[k].block_nr < get_queue[1].block_nr
          /\ \E i \in DOMAIN charges[k].before :
                 charges[k].before[i] < INIT_EPSILON

\* C16: a user leaves the users only by its own release or because a request
\* with preempt set, evaluated at full capacity, has a strictly smaller
\* priority value: never for a request without the flag, below capacity, or
\* of a priority value equal to or greater than the user's.
OnlyStrictPreemption ==
    [][\A u \in Range(users) \ Range(users') :
          \/ /\ Len(Releases(schedule')) > Len(Releases(schedule))
             /\ schedule'[Len(schedule')].req = u
          \/ /\ kind = "PreemptiveResource"
             /\ Granting(Evaluated)
             /\ reqs'[Evaluated].preempt
             /\ Len(users) >= capacity
             /\ reqs'[Evaluated].priority < reqs[u].priority
      ]_vars

\* After time has passed, a request with preempt set waits at the head of
\* the queue of a full resource one of whose users has its priority
EqualPriorityWaits ==
    /\ kind = "PreemptiveResource"
    /\ now > 0
    /\ Len(users) = capacity
    /\ Interrupts(schedule) = <<>>
    /\ Releases(schedule) = <<>>
    /\ put_queue # <<>>
    /\ reqs[put_queue[1]].preempt
    /\ reqs[put_queue[1]].time = now
    /\ \E u \in Range(users) :
          reqs[u].priority = reqs[put_queue[1]].priority

\* s is t with some elements left out
RECURSIVE IsSubseq(_, _)
IsSubseq(s, t) ==
    IF s = <<>> THEN TRUE
    ELSE IF t = <<>> THEN FALSE
    ELSE IF Head(s) = Head(t) THEN IsSubseq(Tail(s), Tail(t))
    ELSE IsSubseq(s, Tail(t))

\* The positions the withdrawals resolved by the step selected
Selected == UNION {Range(charges'[k].value) : k \in DOMAIN charges'}

\* C17: resolving withdrawals changes only the epsilon of the blocks they
\* selected: every block keeps its place, block_id, timestamp and comment,
\* every unselected block its epsilon, and every withdrawal still pending its
\* place and parameters; an evaluation that resolves nothing changes nothing.
WithdrawalFrame ==
    [][/\ \A i \in DOMAIN items :
             /\ i \in DOMAIN items'
             /\ items'[i].block_id = items[i].block_id
             /\ items'[i].timestamp = items[i].timestamp
             /\ items'[i].comment = items[i].comment
             /\ i \notin Selected => items'[i].epsilon = items[i].epsilon
       /\ \/ IsSubseq(get_queue', get_queue)
          \/ /\ LiveGets' = LiveGets + 1
             /\ get_queue' # <<>>
             /\ IsSubseq(SubSeq(get_queue', 1, Len(get_queue') - 1), get_queue)
       /\ Len(get_queue') + Len(charges') =
              Len(get_queue) + (IF LiveGets' = LiveGets + 1 THEN 1 ELSE 0)
       /\ charges' = <<>> /\ Len(items') = Len(items) =>
              /\ items' = items
              /\ Len(GetEvents') <= Len(GetEvents)
              /\ \/ get_queue' = get_queue
                 \/ /\ get_queue' # <<>>
                    /\ SubSeq(get_queue', 1, Len(get_queue') - 1) = get_queue
      ]_vars

\* A withdrawal of one block of two was resolved: the block it left out
\* keeps a fresh budget, and another withdrawal stays pending
OneOfTwoCharged ==
    /\ Len(items) = 2
    /\ get_queue # <<>>
    /\ \E k \in DOMAIN charges :
          /\ charges[k].block_nr = 1
          /\ \E i \in DOMAIN items :
                 i # charges[k].value[1] /\ items[i].epsilon = INIT_EPSILON

\* The budget e of the block at position p after the withdrawals of log that
\* selected it, in the order they were resolved
RECURSIVE ChargedBy(_, _, _)
ChargedBy(e, log, p) ==
    IF log = <<>> THEN e
    ELSE ChargedBy(IF p \in Range(Head(log).value)
                   THEN Charge(e, Head(log).epsilon) ELSE e,
                   Tail(log), p)

\* C18: between its grant and the consumer's resumption, a granted block is
\* charged by the withdrawals resolved in that interval that selected it, and
\* by nothing else: at the end of the step that grants it, its budget is the
\* one its own charge left, charged again by each withdrawal resolved later in
\* the same pass that selected it; and while the grant waits to be seen, each
\* step leaves it the budget it had, charged by the withdrawals that step
\* resolved and that selected it.
GrantsChargedOnlyBySelectors ==
    [][/\ \A k \in DOMAIN charges' : \A j \in DOMAIN charges'[k].value :
             items'[charges'[k].value[j]].epsilon =
                 ChargedBy(charges'[k].after[j],
                           SubSeq(charges', k + 1, Len(charges')),
                           charges'[k].value[j])
       /\ \A i \in DOMAIN schedule : schedule[i].kind = "get" =>
             \A p \in Range(schedule[i].value) :
                 items'[p].epsilon = ChargedBy(items[p].epsilon, charges', p)
      ]_vars

\* C18 as stated: a granted block keeps the budget its own charge left until
\* the consumer resumes
GrantedBudgetsStable ==
    [][/\ \A k \in DOMAIN charges' : \A j \in DOMAIN charges'[k].value :
             items'[charges'[k].value[j]].epsilon = charges'[k].after[j]
       /\ \A i \in DOMAIN schedule : schedule[i].kind = "get" =>
             \A p \in Range(schedule[i].value) :
                 items'[p].epsilon = items[p].epsilon
      ]_vars

\* Two withdrawals were resolved in one pass, neither consumer has resumed,
\* and a block granted to the first no longer has the budget the first left
RechargedBeforeResumption ==
    /\ Len(charges) = 2
    /\ Len(GetEvents) = 2
    /\ \E j \in DOMAIN charges[1].value :
          /\ charges[1].value[j] \in Range(charges[2].value)
          /\ items[charges[1].value[j]].epsilon # charges[1].after[j]

\* C19: the usage_since of a Preempted cause is the time at which the
\* preempted request was granted its slot, also when the request waited in
\* the queue first.  The victims of the step are the users named by the
\* Interrupts it schedules.
UsageSinceGrant ==
    [][\A i \in DOMAIN schedule' :
          schedule'[i].kind = "interrupt" /\ schedule'[i].req \in Range(users) =>
              schedule'[i].usage_since = reqs[schedule'[i].req].since
      ]_vars

\* C20: with an initial budget of 5 and costs that are not negative, the
\* epsilon of every block is the sentinel -1 or lies between 0 and 5: it is
\* never below -1 and never strictly between -1 and 0.
BudgetRange ==
    \A i \in DOMAIN items :
        \/ items[i].epsilon = SENTINEL
        \/ items[i].epsilon \in 0 .. INIT_EPSILON

\* A positive charge took a block's budget to exactly zero
ChargedToZero ==
    \E k \in DOMAIN charges :
        /\ charges[k].epsilon > 0
        /\ charges[k].after = <<0>>
        /\ items[charges[k].value[1]].epsilon = 0

====
